---- MODULE Spec2Model ----
(***************************************************************************)
(* Model of app.py: the COVID-19 dashboard.                                *)
(*                                                                         *)
(* The script reads a wide table (one row per Province/State of a          *)
(* Country/Region, one column per date), melts it to long form, parses the *)
(* date labels, sums Confirmed by (Country/Region, Date), derives          *)
(* New_Cases by a per-region difference, builds the layout and then serves *)
(* the update_graphs callback.                                             *)
(*                                                                         *)
(* Representation.  A Country/Region name is represented by its rank in    *)
(* the lexicographic order of the names (1 < 2 < 3 ...), the order pandas  *)
(* sorts group keys in.  A Province/State is a number, 0 standing for the  *)
(* missing value.  A date label "m/d/20" is the pair <<m, d>>; a parsed    *)
(* date is its day number within 2020.  Confirmed counts and New_Cases are *)
(* integers (the float64 values of the program are exact on them).         *)
(***************************************************************************)
EXTENDS Integers, Sequences, FiniteSets, TLC

VARIABLES pc,                  \* position of the script
          covid_data,          \* the wide table read from the CSV
          covid_data_melted,   \* the long table
          covid_data_grouped,  \* the global table served by the callback
          start_date,          \* date-range.start_date
          end_date,            \* date-range.end_date
          selected_countries,  \* country-dropdown.value
          filtered_df,         \* the local filtered_df of the last call
          outputs              \* what the last call of update_graphs gave

vars == <<pc, covid_data, covid_data_melted, covid_data_grouped,
          start_date, end_date, selected_countries, filtered_df, outputs>>

-----------------------------------------------------------------------------
(* Bounds *)

\* Confirmed values of one cell of the wide table range over 0..MaxConfirmed
MaxConfirmed == 2

-----------------------------------------------------------------------------
(* Shapes of the wide table: row keys and date-column labels *)

\* one region with two provinces (region 1 is absent), two date columns
\* that are not in date order
Keys1 == << [Province |-> 1, Country |-> 2],
            [Province |-> 2, Country |-> 2] >>
Cols1 == << <<10, 1>>, <<9, 30>> >>

\* two regions without provinces, listed out of order, two date columns
\* out of order and a day apart from each other
Keys2 == << [Province |-> 0, Country |-> 2],
            [Province |-> 0, Country |-> 1] >>
Cols2 == << <<10, 1>>, <<9, 29>> >>

\* one region, three date columns out of order
Keys3 == << [Province |-> 0, Country |-> 1] >>
Cols3 == << <<10, 1>>, <<9, 30>>, <<10, 2>> >>

Shapes == { [keys |-> Keys1, cols |-> Cols1],
            [keys |-> Keys2, cols |-> Cols2],
            [keys |-> Keys3, cols |-> Cols3] }

TablesOf(sh) ==
    { [cols |-> sh.cols,
       rows |-> [i \in 1..Len(sh.keys) |->
                   [Province |-> sh.keys[i].Province,
                    Country  |-> sh.keys[i].Country,
                    vals     |-> v[i]]]] :
      v \in [1..Len(sh.keys) -> [1..Len(sh.cols) -> 0..MaxConfirmed]] }

WideTables == UNION { TablesOf(sh) : sh \in Shapes }

-----------------------------------------------------------------------------
(* Helpers *)

Range(s) == { s[i] : i \in 1..Len(s) }

RECURSIVE SumSeq(_)
SumSeq(s) == IF s = <<>> THEN 0 ELSE Head(s) + SumSeq(Tail(s))

Column(df, f) == [i \in 1..Len(df) |-> df[i][f]]

-----------------------------------------------------------------------------
(* The load pipeline, lines 14-25 *)

\* melt(id_vars=..., var_name='Date', value_name='Confirmed'): one row per
\* (row of the wide table, date column), column after column
melt(df) ==
    LET R == Len(df.rows)
        C == Len(df.cols)
    IN  [k \in 1..(R * C) |->
           LET j == ((k - 1) \div R) + 1
               i == ((k - 1) % R) + 1
           IN  [Province  |-> df.rows[i].Province,
                Country   |-> df.rows[i].Country,
                Date      |-> df.cols[j],
                Confirmed |-> df.rows[i].vals[j]]]

\* days of 2020 before the first day of each month
DaysBeforeMonth == <<0, 31, 60, 91, 121, 152, 182, 213, 244, 274, 305, 335>>

\* pd.to_datetime of one label "m/d/20"
to_datetime(label) == DaysBeforeMonth[label[1]] + label[2]

ParseDates(df) ==
    [k \in 1..Len(df) |-> [df[k] EXCEPT !.Date = to_datetime(df[k].Date)]]

\* order of the group keys (Country/Region, Date)
KeyLess(a, b) ==
    \/ a.Country < b.Country
    \/ a.Country = b.Country /\ a.Date < b.Date

RECURSIVE SortKeys(_)
SortKeys(K) ==
    IF K = {} THEN <<>>
    ELSE LET m == CHOOSE x \in K : \A y \in K \ {x} : KeyLess(x, y)
         IN  <<m>> \o SortKeys(K \ {m})

\* the keys in the order of their first appearance (groupby(sort=False))
RECURSIVE AppearanceKeys(_)
AppearanceKeys(df) ==
    IF df = <<>> THEN <<>>
    ELSE LET k    == [Country |-> Head(df).Country, Date |-> Head(df).Date]
             rest == SelectSeq(Tail(df),
                        LAMBDA r : ~(r.Country = k.Country /\ r.Date = k.Date))
         IN  <<k>> \o AppearanceKeys(rest)

\* the keys of groupby(..., sort=False)
GroupKeys_unsorted(df) == AppearanceKeys(df)

\* groupby(['Country/Region', 'Date']): the distinct keys, sorted
GroupKeys(df) ==
    SortKeys({ [Country |-> df[k].Country, Date |-> df[k].Date] : k \in 1..Len(df) })

\* .last() in place of .sum()
GroupSum_last(df) ==
    LET keys == GroupKeys(df)
    IN  [g \in 1..Len(keys) |->
           LET members == SelectSeq(df, LAMBDA r :
                              r.Country = keys[g].Country /\ r.Date = keys[g].Date)
           IN  [Country   |-> keys[g].Country,
                Date      |-> keys[g].Date,
                Confirmed |-> members[Len(members)].Confirmed]]

\* groupby(['Country/Region', 'Date'])['Confirmed'].sum().reset_index()
GroupSum(df) ==
    LET keys == GroupKeys(df)
    IN  [g \in 1..Len(keys) |->
           LET members == SelectSeq(df, LAMBDA r :
                              r.Country = keys[g].Country /\ r.Date = keys[g].Date)
           IN  [Country   |-> keys[g].Country,
                Date      |-> keys[g].Date,
                Confirmed |-> SumSeq(Column(members, "Confirmed"))]]

\* Confirmed.diff() without the groupby
GroupDiff_ungrouped(df, i) ==
    IF i > 1
    THEN [isna |-> FALSE, val |-> df[i].Confirmed - df[i - 1].Confirmed]
    ELSE [isna |-> TRUE, val |-> 0]

\* groupby('Country/Region')['Confirmed'].diff() at row i: the difference
\* to the previous row of the same group, NaN at the first row of a group
GroupDiff(df, i) ==
    IF i > 1 /\ df[i - 1].Country = df[i].Country
    THEN [isna |-> FALSE, val |-> df[i].Confirmed - df[i - 1].Confirmed]
    ELSE [isna |-> TRUE, val |-> 0]

\* .fillna(v)
fillna(x, v) == IF x.isna THEN v ELSE x.val

\* covid_data_grouped['New_Cases'] = ...diff().fillna(0)
WithNewCases(df) ==
    [i \in 1..Len(df) |->
       [Country   |-> df[i].Country,
        Date      |-> df[i].Date,
        Confirmed |-> df[i].Confirmed,
        New_Cases |-> fillna(GroupDiff(df, i), 0)]]

-----------------------------------------------------------------------------
(* The layout, lines 31-61 *)

Dates(df) == { df[i].Date : i \in 1..Len(df) }

\* covid_data_grouped['Date'].min() and .max()
MinDate(df) == CHOOSE d \in Dates(df) : \A x \in Dates(df) : d <= x
MaxDate(df) == CHOOSE d \in Dates(df) : \A x \in Dates(df) : x <= d

\* value=['US', 'India', 'Brazil']: three names, whatever the table holds
DefaultSelected == {1, 2, 3}

-----------------------------------------------------------------------------
(* update_graphs, lines 73-114 *)

\* the mask with both bounds exclusive
Filter_exclusive(df, s, e, sel) ==
    SelectSeq(df, LAMBDA r : r.Date > s /\ r.Date < e /\ r.Country \in sel)

\* the mask without the isin term
Filter_dates_only(df, s, e, sel) ==
    SelectSeq(df, LAMBDA r : r.Date >= s /\ r.Date <= e)

\* the boolean mask of lines 75-79
Filter(df, s, e, sel) ==
    SelectSeq(df, LAMBDA r : r.Date >= s /\ r.Date <= e /\ r.Country \in sel)

RECURSIVE SortNat(_)
SortNat(S) ==
    IF S = {} THEN <<>>
    ELSE LET m == CHOOSE x \in S : \A y \in S : x <= y
         IN  <<m>> \o SortNat(S \ {m})

\* the groups of groupby('Country/Region'), keys sorted
Groups(df) == SortNat({ df[i].Country : i \in 1..Len(df) })

Members(df, c) == SelectSeq(df, LAMBDA r : r.Country = c)

\* .first() in place of .last()
GroupLast_first(df) ==
    LET g == Groups(df)
    IN  [k \in 1..Len(g) |->
           [Country |-> g[k], Confirmed |-> Members(df, g[k])[1].Confirmed]]

\* groupby('Country/Region')['Confirmed'].last()
GroupLast(df) ==
    LET g == Groups(df)
    IN  [k \in 1..Len(g) |->
           LET m == Members(df, g[k])
           IN  [Country |-> g[k], Confirmed |-> m[Len(m)].Confirmed]]

\* groupby('Country/Region')['New_Cases'].sum()
GroupNewCases(df) ==
    LET g == Groups(df)
    IN  [k \in 1..Len(g) |->
           [Country |-> g[k], New_Cases |-> SumSeq(Column(Members(df, g[k]), "New_Cases"))]]

\* sort_values(ascending=False) with the default kind='quicksort', which is
\* not a stable sort: every descending arrangement is a possible outcome
sort_values_desc(series) ==
    { [i \in 1..Len(series) |-> series[p[i]]] :
      p \in { q \in Permutations(1..Len(series)) :
                \A i, j \in 1..Len(series) :
                   i < j => series[q[i]].Confirmed >= series[q[j]].Confirmed } }

\* an idxmax that gives a missing label on an empty series
idxmax_or_none(series) ==
    IF series = <<>> THEN [raised |-> FALSE, label |-> 0]
    ELSE LET k == CHOOSE i \in 1..Len(series) :
                     \A j \in 1..Len(series) : series[j].Confirmed <= series[i].Confirmed
         IN  [raised |-> FALSE, label |-> series[k].Country]

\* Series.idxmax(): the label of the first occurrence of the maximum;
\* raises ValueError on an empty series
idxmax(series) ==
    IF series = <<>> THEN [raised |-> TRUE, label |-> 0]
    ELSE LET k == CHOOSE i \in 1..Len(series) :
                     /\ \A j \in 1..Len(series) : series[j].Confirmed <= series[i].Confirmed
                     /\ \A j \in 1..(i - 1) : series[j].Confirmed < series[i].Confirmed
         IN  [raised |-> FALSE, label |-> series[k].Country]

\* f"{x:,.0f}" of the quotient n / d, d > 0: rounded, halves to even
RoundQuotient(n, d) ==
    LET q == n \div d
        r == n % d
    IN  IF 2 * r < d THEN q
        ELSE IF 2 * r > d THEN q + 1
        ELSE IF q % 2 = 0 THEN q ELSE q + 1

\* total_new_cases / (end - start).days as it is displayed; total_new_cases
\* is a float64, whose division by zero gives inf or nan and no exception
avg_daily(n, days) ==
    IF days = 0
    THEN (IF n > 0 THEN "inf" ELSE IF n < 0 THEN "-inf" ELSE "nan")
    ELSE IF days > 0 THEN [rounded |-> RoundQuotient(n, days)]
    ELSE [rounded |-> RoundQuotient(0 - n, 0 - days)]

\* what one call returns, given the arrangement the sort produced
Returned(df, s, e, bars) ==
    LET total_cases     == SumSeq(Column(GroupLast(df), "Confirmed"))
        total_new_cases == SumSeq(Column(GroupNewCases(df), "New_Cases"))
        top_country     == idxmax(GroupLast(df))
    IN  IF top_country.raised
        THEN [status |-> "raised"]
        ELSE [status              |-> "returned",
              cases_trend         |-> df,
              cases_vs_new_cases  |-> df,
              top_countries       |-> bars,
              total_cases         |-> total_cases,
              total_new_cases     |-> total_new_cases,
              avg_daily_new_cases |-> avg_daily(total_new_cases, e - s),
              top_country         |-> top_country.label]

-----------------------------------------------------------------------------
(* The script and the callback as a state machine *)

Init ==
    /\ pc = "read"
    /\ covid_data \in WideTables
    /\ covid_data_melted = <<>>
    /\ covid_data_grouped = <<>>
    /\ start_date = 0
    /\ end_date = 0
    /\ selected_countries = {}
    /\ filtered_df = <<>>
    /\ outputs = [status |-> "none"]

\* lines 15-16
Melt ==
    /\ pc = "read"
    /\ covid_data_melted' = melt(covid_data)
    /\ pc' = "melted"
    /\ UNCHANGED <<covid_data, covid_data_grouped, start_date, end_date,
                   selected_countries, filtered_df, outputs>>

\* line 19
ToDatetime ==
    /\ pc = "melted"
    /\ covid_data_melted' = ParseDates(covid_data_melted)
    /\ pc' = "dated"
    /\ UNCHANGED <<covid_data, covid_data_grouped, start_date, end_date,
                   selected_countries, filtered_df, outputs>>

\* line 22
GroupBy ==
    /\ pc = "dated"
    /\ covid_data_grouped' = GroupSum(covid_data_melted)
    /\ pc' = "grouped"
    /\ UNCHANGED <<covid_data, covid_data_melted, start_date, end_date,
                   selected_countries, filtered_df, outputs>>

\* line 25
NewCases ==
    /\ pc = "grouped"
    /\ covid_data_grouped' = WithNewCases(covid_data_grouped)
    /\ pc' = "loaded"
    /\ UNCHANGED <<covid_data, covid_data_melted, start_date, end_date,
                   selected_countries, filtered_df, outputs>>

\* lines 28-61
Layout ==
    /\ pc = "loaded"
    /\ start_date' = MinDate(covid_data_grouped)
    /\ end_date' = MaxDate(covid_data_grouped)
    /\ selected_countries' = DefaultSelected
    /\ pc' = "serving"
    /\ UNCHANGED <<covid_data, covid_data_melted, covid_data_grouped,
                   filtered_df, outputs>>

\* the part of a call that is local to it
Call(s, e, sel) ==
    /\ pc = "serving"
    /\ start_date' = s
    /\ end_date' = e
    /\ selected_countries' = sel
    /\ filtered_df' = Filter(covid_data_grouped, s, e, sel)
    /\ \E bars \in sort_values_desc(GroupLast(filtered_df')) :
          outputs' = Returned(filtered_df', s, e, bars)

\* a callback that assigns the filtered table to the global
update_graphs_inplace(s, e, sel) ==
    /\ Call(s, e, sel)
    /\ covid_data_grouped' = Filter(covid_data_grouped, s, e, sel)
    /\ UNCHANGED <<pc, covid_data, covid_data_melted>>

\* lines 73-114
update_graphs(s, e, sel) ==
    /\ Call(s, e, sel)
    /\ UNCHANGED <<pc, covid_data, covid_data_melted, covid_data_grouped>>

\* the dates a request may carry: the dates of the table and the days next
\* to them
PickDates ==
    UNION { {d - 1, d, d + 1} : d \in Dates(covid_data_grouped) }

\* options=[... covid_data_grouped['Country/Region'].unique()], line 45
Options == { covid_data_grouped[i].Country : i \in 1..Len(covid_data_grouped) }

\* the values a request may carry: options the user adds, default values
\* the user has not removed
Selections == SUBSET (Options \cup DefaultSelected)

\* Input('date-range', 'start_date') changes
StartChange ==
    /\ pc = "serving"
    /\ \E s \in PickDates \ {start_date} :
          update_graphs(s, end_date, selected_countries)

\* Input('date-range', 'end_date') changes
EndChange ==
    /\ pc = "serving"
    /\ \E e \in PickDates \ {end_date} :
          update_graphs(start_date, e, selected_countries)

\* Input('country-dropdown', 'value') changes
SelectionChange ==
    /\ pc = "serving"
    /\ \E sel \in Selections \ {selected_countries} :
          update_graphs(start_date, end_date, sel)

\* a page load calls the callback with the values of the layout
PageLoad ==
    /\ pc = "serving"
    /\ update_graphs(MinDate(covid_data_grouped), MaxDate(covid_data_grouped),
                     DefaultSelected)

Next ==
    \/ Melt \/ ToDatetime \/ GroupBy \/ NewCases \/ Layout
    \/ StartChange \/ EndChange \/ SelectionChange \/ PageLoad

Spec == Init /\ [][Next]_vars

-----------------------------------------------------------------------------
(* Vocabulary of the properties *)

Grouped == pc \in {"grouped", "loaded", "serving"}
Loaded  == pc \in {"loaded", "serving"}
Called  == pc = "serving" /\ outputs.status # "none"

Rows == 1..Len(covid_data_grouped)

\* the sum of df[i][f] over the positions i of the set S
RECURSIVE SumAt(_, _, _)
SumAt(S, df, f) ==
    IF S = {} THEN 0
    ELSE LET i == CHOOSE x \in S : TRUE
         IN  df[i][f] + SumAt(S \ {i}, df, f)

\* the rows of a region in the loaded table, and those on or before a date
RegionRows(c) == { i \in Rows : covid_data_grouped[i].Country = c }
RowsUpTo(c, d) == { i \in RegionRows(c) : covid_data_grouped[i].Date <= d }
RowsBefore(c, d) == { i \in RegionRows(c) : covid_data_grouped[i].Date < d }

\* the row of the set S with the latest date, and with the earliest date
LatestRow(S) ==
    CHOOSE i \in S : \A j \in S : covid_data_grouped[j].Date <= covid_data_grouped[i].Date
EarliestRow(S) ==
    CHOOSE i \in S : \A j \in S : covid_data_grouped[i].Date <= covid_data_grouped[j].Date

InRange(c) ==
    { i \in RegionRows(c) : /\ start_date <= covid_data_grouped[i].Date
                            /\ covid_data_grouped[i].Date <= end_date }

\* the selected regions with a row in the range
Present == { c \in selected_countries : InRange(c) # {} }

\* Confirmed of region c at its latest date in the range
LatestConfirmed(c) == covid_data_grouped[LatestRow(InRange(c))].Confirmed

-----------------------------------------------------------------------------
(* C8 *)

MeltedAt(c, d) ==
    { k \in 1..Len(covid_data_melted) :
        covid_data_melted[k].Country = c /\ covid_data_melted[k].Date = d }

MeltedPairs ==
    { <<covid_data_melted[k].Country, covid_data_melted[k].Date>> :
        k \in 1..Len(covid_data_melted) }

\* C8: after the group-and-sum step the table has exactly one row for every
\* (Country/Region, Date) pair of the melted table and no other row, and the
\* row's Confirmed is the sum of Confirmed over the melted rows of the pair.
C8_OneRowPerPairWithSum ==
    Grouped =>
      /\ \A k \in MeltedPairs :
            Cardinality({ i \in Rows : /\ covid_data_grouped[i].Country = k[1]
                                       /\ covid_data_grouped[i].Date = k[2] }) = 1
      /\ \A i \in Rows :
            LET r == covid_data_grouped[i]
            IN  /\ <<r.Country, r.Date>> \in MeltedPairs
                /\ r.Confirmed = SumAt(MeltedAt(r.Country, r.Date), covid_data_melted, "Confirmed")

\* a region with two provinces, both with cases on the same date
C8_Witness ==
    /\ Grouped
    /\ \E i \in Rows :
          LET r == covid_data_grouped[i]
              m == MeltedAt(r.Country, r.Date)
          IN  /\ Cardinality(m) = 2
              /\ \A k \in m : covid_data_melted[k].Confirmed > 0
              /\ \E k, l \in m : covid_data_melted[k].Confirmed # covid_data_melted[l].Confirmed

-----------------------------------------------------------------------------
(* C2 *)

\* C2: once loaded, New_Cases of a row is its Confirmed minus the Confirmed
\* of the row of the same region with the latest earlier date, and 0 when
\* the region has no earlier date.
C2_NewCasesIsRegionDiff ==
    Loaded =>
      \A i \in Rows :
         LET r    == covid_data_grouped[i]
             prev == RowsBefore(r.Country, r.Date)
         IN  IF prev = {}
             THEN r.New_Cases = 0
             ELSE r.New_Cases = r.Confirmed - covid_data_grouped[LatestRow(prev)].Confirmed

\* two regions: the first row of the second region follows a row of the
\* first region with another Confirmed, and some row has a non-zero difference
C2_Witness ==
    /\ Loaded
    /\ \E i \in Rows :
          /\ i > 1
          /\ covid_data_grouped[i - 1].Country # covid_data_grouped[i].Country
          /\ covid_data_grouped[i - 1].Confirmed # covid_data_grouped[i].Confirmed
          /\ covid_data_grouped[i].New_Cases = 0
    /\ \E i \in Rows : covid_data_grouped[i].New_Cases < 0
    /\ \E i \in Rows : covid_data_grouped[i].New_Cases > 0

-----------------------------------------------------------------------------
(* C1 *)

\* the cumulative sum, from zero, of a region's New_Cases up to the date of row i
CumSum(i) ==
    SumAt(RowsUpTo(covid_data_grouped[i].Country, covid_data_grouped[i].Date),
          covid_data_grouped, "New_Cases")

\* C1 as stated: the cumulative sum of New_Cases gives back Confirmed at
\* every date of every region.
C1_CumSumIsConfirmed ==
    Loaded => \A i \in Rows : CumSum(i) = covid_data_grouped[i].Confirmed

\* C1 amended: the cumulative sum of New_Cases gives back Confirmed minus the
\* Confirmed of the region's earliest date, at every date of every region.
C1_CumSumIsConfirmedSinceFirst ==
    Loaded =>
      \A i \in Rows :
         LET r     == covid_data_grouped[i]
             first == covid_data_grouped[EarliestRow(RegionRows(r.Country))]
         IN  CumSum(i) = r.Confirmed - first.Confirmed

\* a region that starts with cases and whose count changes afterwards
C1_Witness ==
    /\ Loaded
    /\ \E i \in Rows :
          LET r     == covid_data_grouped[i]
              first == covid_data_grouped[EarliestRow(RegionRows(r.Country))]
          IN  /\ first.Confirmed > 0
              /\ r.Date > first.Date
              /\ r.Confirmed # first.Confirmed

-----------------------------------------------------------------------------
(* C3 *)

InSpan(d) == MinDate(covid_data_grouped) <= d /\ d <= MaxDate(covid_data_grouped)

\* what C3 says of the filtered subset: not empty, dates ascending within
\* each region, every date within the requested bounds
NonEmptySortedWithinBounds ==
    /\ filtered_df # <<>>
    /\ \A i, j \in 1..Len(filtered_df) :
          (i < j /\ filtered_df[i].Country = filtered_df[j].Country)
             => filtered_df[i].Date < filtered_df[j].Date
    /\ \A i \in 1..Len(filtered_df) :
          start_date <= filtered_df[i].Date /\ filtered_df[i].Date <= end_date

\* C3 as stated: a call with start_date <= end_date, both inside the span of
\* the table, has a subset that is not empty, date-sorted and within bounds.
C3_InSpanGivesRows ==
    (Called /\ start_date <= end_date /\ InSpan(start_date) /\ InSpan(end_date))
       => NonEmptySortedWithinBounds

\* C3 amended: the same, for the calls that also select a region of the
\* table and whose range holds a date of the table.
C3_InSpanWithRegionAndDateGivesRows ==
    ( /\ Called
      /\ start_date <= end_date /\ InSpan(start_date) /\ InSpan(end_date)
      /\ selected_countries \cap Options # {}
      /\ \E d \in Dates(covid_data_grouped) : start_date <= d /\ d <= end_date )
       => NonEmptySortedWithinBounds

\* a one-day range on a date of the table, with a selected region of the
\* table, and rows of the table left out
C3_Witness ==
    /\ Called
    /\ start_date = end_date
    /\ start_date \in Dates(covid_data_grouped)
    /\ selected_countries \cap Options # {}
    /\ filtered_df # <<>>
    /\ Len(filtered_df) < Len(covid_data_grouped)

-----------------------------------------------------------------------------
(* C4 *)

Qualifies(r) ==
    /\ start_date <= r.Date
    /\ r.Date <= end_date
    /\ r.Country \in selected_countries

\* C4: the subset of a call holds every row of the table within the bounds
\* (both inclusive) and of a selected region, each once, and nothing else.
C4_SubsetIsExact ==
    Called =>
      /\ \A i \in Rows :
            Qualifies(covid_data_grouped[i])
               <=> (\E k \in 1..Len(filtered_df) : filtered_df[k] = covid_data_grouped[i])
      /\ \A k \in 1..Len(filtered_df) :
            \E i \in Rows : filtered_df[k] = covid_data_grouped[i]
      /\ Len(filtered_df) = Cardinality({ i \in Rows : Qualifies(covid_data_grouped[i]) })
      /\ outputs.status = "returned" => outputs.cases_trend = filtered_df

\* a call that keeps a row on each bound, drops a row of a selected region
\* for its date and a row within the bounds for its region
C4_Witness ==
    /\ Called
    /\ \E k \in 1..Len(filtered_df) : filtered_df[k].Date = start_date
    /\ \E k \in 1..Len(filtered_df) : filtered_df[k].Date = end_date
    /\ \E i \in Rows :
          /\ covid_data_grouped[i].Country \in selected_countries
          /\ covid_data_grouped[i].Date < start_date
    /\ \E i \in Rows :
          /\ covid_data_grouped[i].Country \notin selected_countries
          /\ start_date <= covid_data_grouped[i].Date
          /\ covid_data_grouped[i].Date <= end_date

-----------------------------------------------------------------------------
(* C5 *)

-----------------------------------------------------------------------------
(* C6 *)

\* C6: once the table is loaded no step changes it, whether the call of
\* update_graphs returns or raises.
C6_TableNeverMutated ==
    [][Loaded => covid_data_grouped' = covid_data_grouped]_vars

\* a call has returned from a subset smaller than the table
C6_Witness ==
    /\ Called
    /\ outputs.status = "returned"
    /\ Len(filtered_df) < Len(covid_data_grouped)
    /\ Len(covid_data_grouped) > 0

-----------------------------------------------------------------------------
(* C7 *)

\* C7: a call whose subset is empty raises and returns nothing.
C7_EmptySubsetRaises ==
    (Called /\ filtered_df = <<>>) => outputs.status = "raised"

\* a call that raised for a range without a row although a region of the
\* table was selected and start_date <= end_date
C7_Witness ==
    /\ Called
    /\ outputs.status = "raised"
    /\ selected_countries \cap Options # {}
    /\ start_date <= end_date
    /\ InSpan(start_date) /\ InSpan(end_date)

-----------------------------------------------------------------------------
(* C10 *)

\* Confirmed of region c at the date just before its earliest date in the
\* range, or at that earliest date when the region has no date before it
BaseConfirmed(c) ==
    LET first  == covid_data_grouped[EarliestRow(InRange(c))]
        before == RowsBefore(c, first.Date)
    IN  IF before = {} THEN first.Confirmed
        ELSE covid_data_grouped[LatestRow(before)].Confirmed

\* the sum of the function f over the set S
RECURSIVE SumOver(_, _)
SumOver(S, f) ==
    IF S = {} THEN 0
    ELSE LET c == CHOOSE x \in S : TRUE
         IN  f[c] + SumOver(S \ {c}, f)

Gain(c) == LatestConfirmed(c) - BaseConfirmed(c)

\* C10: a call that returns reports as total the sum of the regions' latest
\* Confirmed in the range, and as total new cases the sum of the regions'
\* latest Confirmed in the range minus their Confirmed just before the range.
C10_TotalsTelescope ==
    (Called /\ outputs.status = "returned") =>
      /\ outputs.total_cases = SumOver(Present, [c \in Present |-> LatestConfirmed(c)])
      /\ outputs.total_new_cases = SumOver(Present, [c \in Present |-> Gain(c)])

\* two regions in the subset, one of them entering the range after its first
\* date, and totals that differ from zero
C10_Witness ==
    /\ Called
    /\ outputs.status = "returned"
    /\ Cardinality(Present) = 2
    /\ \E c \in Present : RowsBefore(c, covid_data_grouped[EarliestRow(InRange(c))].Date) # {}
    /\ outputs.total_new_cases # 0
    /\ outputs.total_cases > outputs.total_new_cases

====
